---- MODULE Spec2Model ----
(***************************************************************************)
(* Model of claude_word_qa: the chunker of doc_parser.py, the model        *)
(* invoker / orchestrator / synthesizer of anthropic_client.py and the     *)
(* result handling of cli.main.                                            *)
(*                                                                         *)
(* A Python str is a sequence of one-character strings.  None, where a     *)
(* str may stand, is a sequence no str is equal to (its element is not     *)
(* one character).                                                         *)
(***************************************************************************)
EXTENDS Integers, Sequences, FiniteSets, TLC

VARIABLES
    \* ---- split_content_into_chunks called on its own (ChunkSpec) ----
    content,            \* argument content
    budget,             \* argument max_chars_per_chunk
    articles,           \* argument articles (<<>> is None or an empty list)
    split_result,       \* the returned list of chunks
    split_pc,           \* "call" before the call, "returned" after it
    split_trace,        \* the course the call took: iterations, granularity, nesting (history)
    \* ---- one run of cli.main (Spec) ----
    pc,                 \* position in main / ask_claude / ask_claude_single_chunk
    api_key,            \* whether ANTHROPIC_API_KEY is set in the environment
    document_text,      \* what process_data_directory returns
    all_articles,       \* process_data_directory.all_articles, the function attribute
    chunker_articles,   \* the articles ask_claude gave split_content_into_chunks
    chunks,             \* ask_claude: chunks
    i,                  \* ask_claude: loop index of enumerate(chunks, 1)
    chunk_responses,    \* ask_claude: chunk_responses
    chunks_failed,      \* number of times line 133 has run (history)
    caller,             \* who called ask_claude_single_chunk: "chunk" or "synthesis"
    cand,               \* ask_claude_single_chunk: index in models_to_try
    plan,               \* what the transport answers each candidate of the current call
    returns,            \* the return value of every completed invoker call (history)
    ret,                \* return value of the last invoker call
    model_used,         \* candidate whose response ret is, or None (history)
    calls,              \* every ask_claude_single_chunk call so far (history)
    requests,           \* every client.post so far (history)
    syntheses,          \* every combine_chunk_responses call so far (history)
    answer,             \* what ask_claude returned to main, NotReturned before
    raised,             \* exception propagating out of ask_claude, or None
    printed,            \* what main printed between the dashed lines
    saved,              \* save_output calls made by main
    branch              \* the branch main ended in

chunker_vars == <<content, budget, articles, split_result, split_pc, split_trace>>

pipeline_vars == <<pc, api_key, document_text, all_articles, chunker_articles, chunks, i, chunk_responses, chunks_failed, caller, cand, plan, returns, ret, model_used, calls, requests, syntheses, answer, raised, printed, saved, branch>>

vars == <<chunker_vars, pipeline_vars>>

None == <<"None">>

NotReturned == <<"NotReturned">>

\* "no model", "no exception", "no branch", "no caller": None among names
NoName == "None"

(***************************************************************************)
(* Bounds of the model.                                                    *)
(***************************************************************************)
MaxLen == 5             \* longest content given to the chunker without articles

MaxBudget == 3          \* largest budget given to the chunker without articles

MaxArticles == 3        \* longest article list

MaxSlack == 24          \* article budgets reach the rendering overhead plus this

MaxParagraphs == 3      \* most paragraphs of a document given to the pipeline

MaxDepth == 3           \* deepest nesting of recursive calls the chunker is followed to

PipelineBudget == 2     \* stands for max_chars_per_chunk of ask_claude, which is
                        \* (200000 - 1000) * 4, scaled down to the model's documents

(***************************************************************************)
(* Python str operations used by the code.                                 *)
(***************************************************************************)
Whitespace == {" ", "\n"}

Min(a, b) == IF a < b THEN a ELSE b

Max(a, b) == IF a > b THEN a ELSE b

\* s[:n], for negative n too (word[:max_chars_per_chunk])
Take(s, n) == IF n >= 0 THEN SubSeq(s, 1, Min(n, Len(s))) ELSE SubSeq(s, 1, Max(Len(s) + n, 0))

RECURSIVE LStrip(_)
LStrip(s) == IF s # <<>> /\ Head(s) \in Whitespace THEN LStrip(Tail(s)) ELSE s

RECURSIVE RStrip(_)
RStrip(s) == IF s # <<>> /\ s[Len(s)] \in Whitespace THEN RStrip(SubSeq(s, 1, Len(s) - 1)) ELSE s

\* s.strip()
Strip(s) == RStrip(LStrip(s))

RECURSIVE SplitOnFrom(_, _, _, _)
SplitOnFrom(s, sep, k, piece) ==
    IF k > Len(s) THEN <<piece>>
    ELSE IF k + Len(sep) - 1 <= Len(s) /\ SubSeq(s, k, k + Len(sep) - 1) = sep
         THEN <<piece>> \o SplitOnFrom(s, sep, k + Len(sep), <<>>)
         ELSE SplitOnFrom(s, sep, k + 1, Append(piece, s[k]))

\* s.split(sep): the pieces between the occurrences of sep, empty ones kept
SplitOn(s, sep) == SplitOnFrom(s, sep, 1, <<>>)

RECURSIVE SplitWsFrom(_, _, _)
SplitWsFrom(s, k, piece) ==
    IF k > Len(s) THEN (IF piece = <<>> THEN <<>> ELSE <<piece>>)
    ELSE IF s[k] \in Whitespace
         THEN (IF piece = <<>> THEN <<>> ELSE <<piece>>) \o SplitWsFrom(s, k + 1, <<>>)
         ELSE SplitWsFrom(s, k + 1, Append(piece, s[k]))

\* s.split(): the runs of non-whitespace characters
SplitWs(s) == SplitWsFrom(s, 1, <<>>)

RECURSIVE Concat(_)
Concat(ss) == IF ss = <<>> THEN <<>> ELSE Head(ss) \o Concat(Tail(ss))

ParagraphSep == <<"\n", "\n">>

SentenceSep == <<".", " ">>

WordSep == <<" ">>

(***************************************************************************)
(* doc_parser.split_content_into_chunks.  The loops thread the pair        *)
(* (chunks, current_chunk) as the record st, with the course of the call.  *)
(***************************************************************************)
\* The course of a call: how many loop iterations it has run (steps), the
\* finest granularity it has reached (level: 0 none, 1 paragraph, 2 sentence,
\* 3 word, 4 truncate) and how deep its recursive calls have nested (depth).
NoTrace == [steps |-> 0, level |-> 0, depth |-> 0]

\* the course t, then one more iteration of a loop of granularity lv
Iterate(lv, t) == [steps |-> t.steps + 1, level |-> Max(lv, t.level), depth |-> t.depth]

\* the course t, then the course u of a recursive call
ThenCall(t, u) == [steps |-> t.steps + u.steps, level |-> Max(t.level, u.level), depth |-> Max(t.depth, u.depth + 1)]

\* lines 49-50 and 71-72: chunks = [], current_chunk = ""; t is the course so far
EmptyAcc == [chunks |-> <<>>, cur |-> <<>>, t |-> NoTrace]

\* WordStep with the slip of starting the next chunk empty instead of with
\* the word that did not fit
WordStep_DropsWord(st, word, max) ==
    IF Len(st.cur) + Len(word) + 1 > max
    THEN IF st.cur # <<>>
         THEN [chunks |-> Append(st.chunks, Strip(st.cur)), cur |-> <<>>, t |-> Iterate(3, st.t)]
         ELSE [chunks |-> Append(st.chunks, Take(word, max)), cur |-> st.cur, t |-> Iterate(4, st.t)]
    ELSE [chunks |-> st.chunks, cur |-> IF st.cur # <<>> THEN st.cur \o WordSep \o word ELSE word, t |-> Iterate(3, st.t)]

\* lines 95-103: one iteration of "for word in words"
WordStep(st, word, max) ==
    IF Len(st.cur) + Len(word) + 1 > max
    THEN IF st.cur # <<>>
         THEN [chunks |-> Append(st.chunks, Strip(st.cur)), cur |-> word, t |-> Iterate(3, st.t)]
         ELSE [chunks |-> Append(st.chunks, Take(word, max)), cur |-> st.cur, t |-> Iterate(4, st.t)]
    ELSE [chunks |-> st.chunks, cur |-> IF st.cur # <<>> THEN st.cur \o WordSep \o word ELSE word, t |-> Iterate(3, st.t)]

RECURSIVE WordLoop(_, _, _, _)
WordLoop(words, k, st, max) ==
    IF k > Len(words) THEN st ELSE WordLoop(words, k + 1, WordStep(st, words[k], max), max)

\* lines 87-105: one iteration of "for sentence in sentences"
SentenceStep(st, sentence, max) ==
    IF Len(st.cur) + Len(sentence) + 2 > max
    THEN IF st.cur # <<>>
         THEN [chunks |-> Append(st.chunks, Strip(st.cur)), cur |-> sentence, t |-> Iterate(2, st.t)]
         ELSE WordLoop(SplitWs(sentence), 1, [st EXCEPT !.t = Iterate(3, st.t)], max)
    ELSE [chunks |-> st.chunks, cur |-> IF st.cur # <<>> THEN st.cur \o SentenceSep \o sentence ELSE sentence, t |-> Iterate(2, st.t)]

RECURSIVE SentenceLoop(_, _, _, _)
SentenceLoop(sentences, k, st, max) ==
    IF k > Len(sentences) THEN st ELSE SentenceLoop(sentences, k + 1, SentenceStep(st, sentences[k], max), max)

\* lines 79-107: one iteration of "for paragraph in paragraphs"
ParagraphStep(st, paragraph, max) ==
    IF Len(st.cur) + Len(paragraph) + 2 > max
    THEN IF st.cur # <<>>
         THEN [chunks |-> Append(st.chunks, Strip(st.cur)), cur |-> paragraph, t |-> Iterate(1, st.t)]
         ELSE SentenceLoop(SplitOn(paragraph, SentenceSep), 1, [st EXCEPT !.t = Iterate(2, st.t)], max)
    ELSE [chunks |-> st.chunks, cur |-> IF st.cur # <<>> THEN st.cur \o ParagraphSep \o paragraph ELSE paragraph, t |-> Iterate(1, st.t)]

RECURSIVE ParagraphLoop(_, _, _, _)
ParagraphLoop(paragraphs, k, st, max) ==
    IF k > Len(paragraphs) THEN st ELSE ParagraphLoop(paragraphs, k + 1, ParagraphStep(st, paragraphs[k], max), max)

\* lines 65-68 and 109-112: the final "if current_chunk: chunks.append(...)"
\* and the return
Flush(st) == [chunks |-> IF st.cur # <<>> THEN Append(st.chunks, Strip(st.cur)) ELSE st.chunks, t |-> st.t]

TitlePrefix == <<"T", "i", "t", "l", "e", ":", " ">>

ContentPrefix == <<"\n", "C", "o", "n", "t", "e", "n", "t", ":", " ">>

\* line 52: f"Title: {article['title']}\nContent: {article['content']}"
Render(article) == TitlePrefix \o article.title \o ContentPrefix \o article.content

\* the recursive call with the slip of handing on the article list
RecursionArticles_PassesArticles(arts) == arts

\* line 61: split_content_into_chunks(article_content, max_chars_per_chunk),
\* the recursive call leaves the articles parameter at its default None
RecursionArticles(arts) == <<>>

\* SplitCall(text, max, arts, d): the call at nesting depth d, its chunks and
\* its course
RECURSIVE SplitCall(_, _, _, _)

\* ArticleStep with the slip of starting the next chunk empty instead of
\* with the article that did not fit
ArticleStep_DropsArticle(st, article, max, arts, d) ==
    IF Len(st.cur) + Len(Render(article)) + 2 > max
    THEN IF st.cur # <<>>
         THEN [chunks |-> Append(st.chunks, Strip(st.cur)), cur |-> <<>>, t |-> Iterate(0, st.t)]
         ELSE LET inner == SplitCall(Render(article), max, RecursionArticles(arts), d + 1)
              IN  [chunks |-> st.chunks \o inner.chunks, cur |-> st.cur, t |-> ThenCall(Iterate(0, st.t), inner.t)]
    ELSE [chunks |-> st.chunks, cur |-> IF st.cur # <<>> THEN st.cur \o ParagraphSep \o Render(article) ELSE Render(article), t |-> Iterate(0, st.t)]

\* lines 51-63: one iteration of "for article in articles", in the call at
\* depth d with the article list arts
ArticleStep(st, article, max, arts, d) ==
    IF Len(st.cur) + Len(Render(article)) + 2 > max
    THEN IF st.cur # <<>>
         THEN [chunks |-> Append(st.chunks, Strip(st.cur)), cur |-> Render(article), t |-> Iterate(0, st.t)]
         ELSE LET inner == SplitCall(Render(article), max, RecursionArticles(arts), d + 1)
              IN  [chunks |-> st.chunks \o inner.chunks, cur |-> st.cur, t |-> ThenCall(Iterate(0, st.t), inner.t)]
    ELSE [chunks |-> st.chunks, cur |-> IF st.cur # <<>> THEN st.cur \o ParagraphSep \o Render(article) ELSE Render(article), t |-> Iterate(0, st.t)]

RECURSIVE ArticleLoop(_, _, _, _, _)
ArticleLoop(arts, k, st, max, d) ==
    IF k > Len(arts) THEN st ELSE ArticleLoop(arts, k + 1, ArticleStep(st, arts[k], max, arts, d), max, d)

\* lines 38-112; a call nested deeper than MaxDepth is not followed
SplitCall(text, max, arts, d) ==
    IF d > MaxDepth THEN [chunks |-> <<>>, t |-> NoTrace]
    ELSE IF Len(text) <= max THEN [chunks |-> <<text>>, t |-> NoTrace]
    ELSE IF arts # <<>> THEN Flush(ArticleLoop(arts, 1, EmptyAcc, max, d))
    ELSE Flush(ParagraphLoop(SplitOn(text, ParagraphSep), 1, EmptyAcc, max))

\* split_content_into_chunks with < for <= in the test of line 43
split_content_into_chunks_StrictLess(text, max, arts) ==
    IF Len(text) < max THEN [chunks |-> <<text>>, t |-> NoTrace]
    ELSE IF arts # <<>> THEN Flush(ArticleLoop(arts, 1, EmptyAcc, max, 0))
    ELSE Flush(ParagraphLoop(SplitOn(text, ParagraphSep), 1, EmptyAcc, max))

\* lines 38-112: the call from outside, its chunks and its course
split_content_into_chunks(text, max, arts) == SplitCall(text, max, arts, 0)

(***************************************************************************)
(* ChunkSpec: split_content_into_chunks applied to every input of the      *)
(* bounded sets below.                                                     *)
(***************************************************************************)
Alphabet == {"a", "b", ".", " ", "\n"}

Strings(n) == UNION {[1..k -> Alphabet] : k \in 0..n}

Budgets == (0 - 1)..MaxBudget

Titles == {<<"a">>, <<"b">>}

\* extract_articles_from_docx strips the content, which may then be empty
ArticleContents == {<<>>, <<"a">>, <<"a", ".", " ", "b">>, <<"a", "\n", "\n", "b">>}

ArticleSet == [title : Titles, content : ArticleContents]

ArticleLists == UNION {[1..k -> ArticleSet] : k \in 1..MaxArticles}

RenderOverhead == Len(TitlePrefix) + Len(ContentPrefix)

ArticleBudgets == (RenderOverhead - 2)..(RenderOverhead + MaxSlack)

RECURSIVE JoinWith(_, _)
JoinWith(ss, sep) ==
    IF ss = <<>> THEN <<>>
    ELSE IF Len(ss) = 1 THEN Head(ss)
    ELSE Head(ss) \o sep \o JoinWith(Tail(ss), sep)

RenderedJoined(arts) == JoinWith([k \in 1..Len(arts) |-> Render(arts[k])], ParagraphSep)

PipelineIdle ==
    /\ pc = "idle"
    /\ api_key = TRUE
    /\ document_text = <<>>
    /\ all_articles = <<>>
    /\ chunker_articles = <<>>
    /\ chunks = <<>>
    /\ i = 0
    /\ chunk_responses = <<>>
    /\ chunks_failed = 0
    /\ caller = NoName
    /\ cand = 0
    /\ plan = <<>>
    /\ returns = <<>>
    /\ ret = None
    /\ model_used = NoName
    /\ calls = <<>>
    /\ requests = <<>>
    /\ syntheses = <<>>
    /\ answer = NotReturned
    /\ raised = NoName
    /\ printed = <<>>
    /\ saved = <<>>
    /\ branch = NoName

ChunkInit ==
    /\ split_pc = "call"
    /\ split_result = <<>>
    /\ split_trace = NoTrace
    /\ \/ /\ articles = <<>>
          /\ content \in Strings(MaxLen)
          /\ budget \in Budgets
       \/ /\ articles \in ArticleLists
          /\ content = RenderedJoined(articles)
          /\ budget \in ArticleBudgets
    /\ PipelineIdle

\* lines 43-44: the content fits, it is returned whole
SplitWhole ==
    /\ split_pc = "call"
    /\ Len(content) <= budget
    /\ LET r == split_content_into_chunks(content, budget, articles)
       IN  split_result' = r.chunks /\ split_trace' = r.t
    /\ split_pc' = "returned"
    /\ UNCHANGED <<content, budget, articles, pipeline_vars>>

\* lines 47-68: the content does not fit and articles are given
SplitByArticles ==
    /\ split_pc = "call"
    /\ Len(content) > budget
    /\ articles # <<>>
    /\ LET r == split_content_into_chunks(content, budget, articles)
       IN  split_result' = r.chunks /\ split_trace' = r.t
    /\ split_pc' = "returned"
    /\ UNCHANGED <<content, budget, articles, pipeline_vars>>

\* lines 70-112: the content does not fit and no articles are given
SplitByCascade ==
    /\ split_pc = "call"
    /\ Len(content) > budget
    /\ articles = <<>>
    /\ LET r == split_content_into_chunks(content, budget, articles)
       IN  split_result' = r.chunks /\ split_trace' = r.t
    /\ split_pc' = "returned"
    /\ UNCHANGED <<content, budget, articles, pipeline_vars>>

ChunkNext == SplitWhole \/ SplitByArticles \/ SplitByCascade

ChunkSpec == ChunkInit /\ [][ChunkNext]_vars

(***************************************************************************)
(* anthropic_client.py and cli.main.                                       *)
(***************************************************************************)
MODEL_NAME_CLAUDE_4 == "claude-sonnet-4-20250514"

MODEL_NAME_CLAUDE_35 == "claude-3-5-sonnet-20241022"

\* lines 57-60
models_to_try == <<MODEL_NAME_CLAUDE_4, MODEL_NAME_CLAUDE_35>>

DefaultMaxTokens == 1500

SynthesisMaxTokens == 2000

\* a character str.encode('utf-8', errors='ignore') drops (a lone surrogate)
Unencodable == {"^"}

\* lines 33 and 113: text.encode('utf-8', errors='ignore').decode('utf-8')
Clean(text) == SelectSeq(text, LAMBDA c : c \notin Unencodable)

\* Python truth of an Optional[str]
Truthy(v) == v # None /\ v # NotReturned /\ v # <<>>

\* What one client.post can end in:
\*   ok                 a response whose content is non-empty and whose first
\*                      element has the text `text`
\*   empty_content      a response without content, or with empty content
\*   overloaded_529     raise_for_status raises HTTPStatusError, status 529
\*   http_status_error  raise_for_status raises HTTPStatusError, other status
\*   network_or_timeout the post raises (connection error, 60 s timeout)
\*   decode_error       UnicodeDecodeError on the request or response text
\*   malformed_body     response.json() or result["content"][0]["text"] raises
RecoverableErrors == {"overloaded_529", "http_status_error", "network_or_timeout", "decode_error", "malformed_body"}

Failures == RecoverableErrors \cup {"empty_content"}

Texts == {<<" ">>, <<" ", "x">>, <<"x", "y">>}

Responses == [kind : {"ok"}, text : Texts] \cup [kind : Failures, text : {<<>>}]

Plans == [1..Len(models_to_try) -> Responses]

\* a candidate loop that goes on to the next candidate after a success
AttemptOutcome_ContinuesAfterSuccess(resp) ==
    IF resp.kind = "empty_content" THEN [do |-> "return", value |-> None] ELSE [do |-> "continue", value |-> None]

\* AttemptOutcome with the slip of giving up on an HTTP status error other
\* than 529 instead of continuing with the next candidate
AttemptOutcome_NoFallbackOnHttpError(resp) ==
    CASE resp.kind = "ok" -> [do |-> "return", value |-> Strip(resp.text)]
      [] resp.kind = "empty_content" -> [do |-> "return", value |-> None]
      [] resp.kind = "http_status_error" -> [do |-> "return", value |-> None]
      [] OTHER -> [do |-> "continue", value |-> None]

\* AttemptOutcome without the "except UnicodeDecodeError" and
\* "except Exception" clauses: these errors leave the function
AttemptOutcome_ErrorsEscape(resp) ==
    CASE resp.kind = "ok" -> [do |-> "return", value |-> Strip(resp.text)]
      [] resp.kind = "empty_content" -> [do |-> "return", value |-> None]
      [] resp.kind = "overloaded_529" -> [do |-> "continue", value |-> None]
      [] resp.kind = "http_status_error" -> [do |-> "continue", value |-> None]
      [] OTHER -> [do |-> "raise", value |-> resp.kind]

\* lines 71-100: what one pass of "for model_name, ..." does with the
\* transport's answer: return a value, or continue with the next candidate
AttemptOutcome(resp) ==
    CASE resp.kind = "ok" -> [do |-> "return", value |-> Strip(resp.text)]
      [] resp.kind = "empty_content" -> [do |-> "return", value |-> None]
      [] resp.kind = "overloaded_529" -> [do |-> "continue", value |-> None]
      [] resp.kind = "http_status_error" -> [do |-> "continue", value |-> None]
      [] resp.kind = "decode_error" -> [do |-> "continue", value |-> None]
      [] OTHER -> [do |-> "continue", value |-> None]

\* ChunkHandled with the slip of inserting the response in front
ChunkHandled_Prepends(response, responses, failed) ==
    IF Truthy(response)
    THEN [responses |-> <<response>> \o responses, failed |-> failed]
    ELSE [responses |-> responses, failed |-> failed + 1]

\* lines 130-133: the loop body of ask_claude after the invoker returned
ChunkHandled(response, responses, failed) ==
    IF Truthy(response)
    THEN [responses |-> Append(responses, response), failed |-> failed]
    ELSE [responses |-> responses, failed |-> failed + 1]

\* AfterChunk with a break on a failed chunk
\* a loop that queries a chunk again when its answer was a failure
AfterChunk_RetriesFailedChunk(response, k, n) ==
    IF ~Truthy(response) THEN [i |-> k, pc |-> "loop"] ELSE IF k + 1 > n THEN [i |-> k + 1, pc |-> "decide"] ELSE [i |-> k + 1, pc |-> "loop"]

AfterChunk_BreaksOnFailure(response, k, n) ==
    IF k + 1 > n \/ ~Truthy(response) THEN [i |-> k + 1, pc |-> "decide"] ELSE [i |-> k + 1, pc |-> "loop"]

\* line 128: the for loop goes on to the next chunk, whatever the response
AfterChunk(response, k, n) == IF k + 1 > n THEN [i |-> k + 1, pc |-> "decide"] ELSE [i |-> k + 1, pc |-> "loop"]

\* FinalDecision without the single-response shortcut of lines 140-141
FinalDecision_AlwaysCombine(responses) == IF responses = <<>> THEN "none" ELSE "combine"

\* FinalDecision without the "if not chunk_responses" test of lines 135-137
FinalDecision_NoEmptyCheck(responses) == IF Len(responses) = 1 THEN "passthrough" ELSE "combine"

\* lines 135-145: what ask_claude does with chunk_responses after the loop
FinalDecision(responses) ==
    IF responses = <<>> THEN "none"
    ELSE IF Len(responses) = 1 THEN "passthrough"
    ELSE "combine"

SynthesisSep == <<"\n", "\n", "-", "-", "-", "\n", "\n">>

\* line 154: combined_text, the part of synthesis_prompt that varies
CombinedText(responses) == JoinWith(responses, SynthesisSep)

\* SynthesisResult falling back to the first partial answer when the
\* synthesis call failed
SynthesisResult_FallsBack(invoked, responses) == IF invoked = None THEN responses[1] ELSE invoked

\* lines 145-147 and 172: ask_claude returns what combine_chunk_responses
\* returns, which is what the invoker returned for the synthesis prompt
SynthesisResult(invoked, responses) == invoked

\* lines 107-140: what main does with the value ask_claude returned.
\* `answer, technical_details = result` unpacks a str: ValueError unless it
\* has two characters; then technical_details is a str and
\* technical_details.get (line 117) raises AttributeError.
MainHandle(result) ==
    IF ~Truthy(result) THEN [printed |-> <<>>, saved |-> <<>>, branch |-> "no_answer"]
    ELSE IF Len(result) # 2 THEN [printed |-> <<>>, saved |-> <<>>, branch |-> "value_error"]
    ELSE [printed |-> <<<<result[1]>>>>, saved |-> <<>>, branch |-> "unexpected_error"]

\* the documents: 1..MaxParagraphs one-letter paragraphs behind an
\* unencodable character, and the one-paragraph document without it
RECURSIVE ParagraphsDoc(_)
ParagraphsDoc(n) == IF n = 1 THEN <<"a">> ELSE <<"a">> \o ParagraphSep \o ParagraphsDoc(n - 1)

Documents == {<<"^">> \o ParagraphsDoc(n) : n \in 1..MaxParagraphs} \cup {ParagraphsDoc(1)}

\* doc_parser.py lines 133-139 and 153: the articles of the documents, here
\* one per paragraph of the combined text
ExtractedArticles(d) ==
    LET ps == SplitOn(Clean(d), ParagraphSep)
    IN  [k \in 1..Len(ps) |-> [title |-> <<"a">>, content |-> ps[k]]]

\* line 121: split_content_into_chunks(clean_document_text, max_chars_per_chunk),
\* the articles parameter is left at its default None whatever was stored
ArticlesArgument(stored) == <<>>

ChunkerIdle ==
    /\ content = <<>>
    /\ budget = 0
    /\ articles = <<>>
    /\ split_result = <<>>
    /\ split_pc = "idle"
    /\ split_trace = NoTrace

Init ==
    /\ pc = "main"
    /\ api_key \in BOOLEAN
    /\ document_text = <<>>
    /\ all_articles = <<>>
    /\ chunker_articles = <<>>
    /\ chunks = <<>>
    /\ i = 0
    /\ chunk_responses = <<>>
    /\ chunks_failed = 0
    /\ caller = NoName
    /\ cand = 0
    /\ plan = <<>>
    /\ returns = <<>>
    /\ ret = None
    /\ model_used = NoName
    /\ calls = <<>>
    /\ requests = <<>>
    /\ syntheses = <<>>
    /\ answer = NotReturned
    /\ raised = NoName
    /\ printed = <<>>
    /\ saved = <<>>
    /\ branch = NoName
    /\ ChunkerIdle

\* cli.py lines 101-102, doc_parser.py lines 122-155: process_data_directory
\* returns the combined text and stores the articles on itself
MainLoad ==
    /\ pc = "main"
    /\ \E d \in Documents : document_text' = d /\ all_articles' = ExtractedArticles(d)
    /\ pc' = "ask_claude"
    /\ UNCHANGED <<api_key, chunker_articles, chunks, i, chunk_responses, chunks_failed, caller, cand, plan, returns, ret, model_used, calls, requests, syntheses, answer, raised, printed, saved, branch, chunker_vars>>

\* cli.py lines 101 and 130-133: process_data_directory raises
\* FileNotFoundError (no data directory) or ValueError (no .docx content)
MainLoadFails ==
    /\ pc = "main"
    /\ \E e \in {"file_not_found", "value_error"} : branch' = e
    /\ pc' = "done"
    /\ UNCHANGED <<api_key, document_text, all_articles, chunker_articles, chunks, i, chunk_responses, chunks_failed, caller, cand, plan, returns, ret, model_used, calls, requests, syntheses, answer, raised, printed, saved, chunker_vars>>

\* lines 110-127: ask_claude cleans the text and splits it
AskClaudeSplit ==
    /\ pc = "ask_claude"
    /\ chunks' = split_content_into_chunks(Clean(document_text), PipelineBudget, ArticlesArgument(all_articles)).chunks
    /\ chunker_articles' = ArticlesArgument(all_articles)
    /\ chunk_responses' = <<>>
    /\ i' = 1
    /\ pc' = IF chunks' = <<>> THEN "decide" ELSE "loop"
    /\ UNCHANGED <<api_key, document_text, all_articles, chunks_failed, caller, cand, plan, returns, ret, model_used, calls, requests, syntheses, answer, raised, printed, saved, branch, chunker_vars>>

\* lines 128-129 and 16-60: the loop calls ask_claude_single_chunk for chunk i,
\* the credential is there, the candidate loop starts
InvokeForChunk ==
    /\ pc = "loop"
    /\ api_key
    /\ calls' = Append(calls, [caller |-> "chunk", chunk_number |-> i, total_chunks |-> Len(chunks), max_tokens |-> DefaultMaxTokens, text |-> Clean(chunks[i])])
    /\ caller' = "chunk"
    /\ cand' = 1
    /\ \E p \in Plans : plan' = p
    /\ ret' = None
    /\ model_used' = NoName
    /\ pc' = "request"
    /\ UNCHANGED <<api_key, document_text, all_articles, chunker_articles, chunks, i, chunk_responses, chunks_failed, returns, requests, syntheses, answer, raised, printed, saved, branch, chunker_vars>>

\* an orchestrator that records the chunk as failed when the credential is
\* missing, and goes on
InvokeRaises_RecordsFailure ==
    /\ pc = "loop"
    /\ ~api_key
    /\ calls' = Append(calls, [caller |-> "chunk", chunk_number |-> i, total_chunks |-> Len(chunks), max_tokens |-> DefaultMaxTokens, text |-> Clean(chunks[i])])
    /\ caller' = "chunk"
    /\ ret' = None
    /\ returns' = Append(returns, None)
    /\ pc' = "returned"
    /\ UNCHANGED <<api_key, document_text, all_articles, chunker_articles, chunks, i, chunk_responses, chunks_failed, cand, plan, model_used, requests, syntheses, answer, raised, printed, saved, branch, chunker_vars>>

\* lines 128-129 and 20-28: the credential is missing, ask_claude_single_chunk
\* raises RuntimeError, which ask_claude does not catch
InvokeRaises ==
    /\ pc = "loop"
    /\ ~api_key
    /\ calls' = Append(calls, [caller |-> "chunk", chunk_number |-> i, total_chunks |-> Len(chunks), max_tokens |-> DefaultMaxTokens, text |-> Clean(chunks[i])])
    /\ raised' = "RuntimeError"
    /\ pc' = "main_except"
    /\ UNCHANGED <<api_key, document_text, all_articles, chunker_articles, chunks, i, chunk_responses, chunks_failed, caller, cand, plan, returns, ret, model_used, requests, syntheses, answer, printed, saved, branch, chunker_vars>>

\* lines 62-104: one pass of the candidate loop: the request to candidate
\* cand, then return, continue, or fall out of the loop to line 104
Attempt ==
    /\ pc = "request"
    /\ requests' = Append(requests, [call |-> Len(calls), model |-> models_to_try[cand]])
    /\ LET o == AttemptOutcome(plan[cand])
       IN  IF o.do = "return"
           THEN /\ ret' = o.value
                /\ model_used' = IF plan[cand].kind = "ok" THEN models_to_try[cand] ELSE NoName
                /\ returns' = Append(returns, o.value)
                /\ pc' = "returned"
                /\ UNCHANGED <<cand, raised>>
           ELSE IF o.do = "continue"
           THEN IF cand < Len(models_to_try)
                THEN /\ cand' = cand + 1
                     /\ UNCHANGED <<ret, model_used, returns, pc, raised>>
                ELSE /\ ret' = None
                     /\ model_used' = NoName
                     /\ returns' = Append(returns, None)
                     /\ pc' = "returned"
                     /\ UNCHANGED <<cand, raised>>
           ELSE /\ raised' = o.value
                /\ pc' = "main_except"
                /\ UNCHANGED <<cand, ret, model_used, returns>>
    /\ UNCHANGED <<api_key, document_text, all_articles, chunker_articles, chunks, i, chunk_responses, chunks_failed, caller, plan, calls, syntheses, answer, printed, saved, branch, chunker_vars>>

\* lines 71-79: the candidate answers with non-empty content
AttemptSucceeds == pc = "request" /\ plan[cand].kind = "ok" /\ Attempt

\* lines 77-80: the candidate answers without content
AttemptEmptyContent == pc = "request" /\ plan[cand].kind = "empty_content" /\ Attempt

\* lines 82-100: the request or the reading of the response raises
AttemptFails == pc = "request" /\ plan[cand].kind \in RecoverableErrors /\ Attempt

\* lines 129-133: the invoker returned to the loop of ask_claude
ChunkReturn ==
    /\ pc = "returned"
    /\ caller = "chunk"
    /\ chunk_responses' = ChunkHandled(ret, chunk_responses, chunks_failed).responses
    /\ chunks_failed' = ChunkHandled(ret, chunk_responses, chunks_failed).failed
    /\ i' = AfterChunk(ret, i, Len(chunks)).i
    /\ pc' = AfterChunk(ret, i, Len(chunks)).pc
    /\ UNCHANGED <<api_key, document_text, all_articles, chunker_articles, chunks, caller, cand, plan, returns, ret, model_used, calls, requests, syntheses, answer, raised, printed, saved, branch, chunker_vars>>

\* lines 135-137: no chunk gave a response
AllChunksFailed ==
    /\ pc = "decide"
    /\ FinalDecision(chunk_responses) = "none"
    /\ answer' = None
    /\ pc' = "main_result"
    /\ UNCHANGED <<api_key, document_text, all_articles, chunker_articles, chunks, i, chunk_responses, chunks_failed, caller, cand, plan, returns, ret, model_used, calls, requests, syntheses, raised, printed, saved, branch, chunker_vars>>

\* lines 140-141: one response, returned directly
Passthrough ==
    /\ pc = "decide"
    /\ FinalDecision(chunk_responses) = "passthrough"
    /\ answer' = chunk_responses[1]
    /\ pc' = "main_result"
    /\ UNCHANGED <<api_key, document_text, all_articles, chunker_articles, chunks, i, chunk_responses, chunks_failed, caller, cand, plan, returns, ret, model_used, calls, requests, syntheses, raised, printed, saved, branch, chunker_vars>>

\* lines 144-145 and 149-172: combine_chunk_responses builds the synthesis
\* prompt and calls ask_claude_single_chunk(question, prompt, 1, 1, 2000).
\* The credential was there for the chunks, so it is there now.
Combine ==
    /\ pc = "decide"
    /\ FinalDecision(chunk_responses) = "combine"
    /\ api_key
    /\ syntheses' = Append(syntheses, chunk_responses)
    /\ calls' = Append(calls, [caller |-> "synthesis", chunk_number |-> 1, total_chunks |-> 1, max_tokens |-> SynthesisMaxTokens, text |-> Clean(CombinedText(chunk_responses))])
    /\ caller' = "synthesis"
    /\ cand' = 1
    /\ \E p \in Plans : plan' = p
    /\ ret' = None
    /\ model_used' = NoName
    /\ pc' = "request"
    /\ UNCHANGED <<api_key, document_text, all_articles, chunker_articles, chunks, i, chunk_responses, chunks_failed, returns, requests, answer, raised, printed, saved, branch, chunker_vars>>

\* lines 145-147: the synthesis call returned, ask_claude returns its value
SynthesisReturn ==
    /\ pc = "returned"
    /\ caller = "synthesis"
    /\ answer' = SynthesisResult(ret, chunk_responses)
    /\ pc' = "main_result"
    /\ UNCHANGED <<api_key, document_text, all_articles, chunker_articles, chunks, i, chunk_responses, chunks_failed, caller, cand, plan, returns, ret, model_used, calls, requests, syntheses, raised, printed, saved, branch, chunker_vars>>

\* cli.py lines 105-128 and 132-140: main handles the returned value
MainResult ==
    /\ pc = "main_result"
    /\ printed' = MainHandle(answer).printed
    /\ saved' = MainHandle(answer).saved
    /\ branch' = MainHandle(answer).branch
    /\ pc' = "done"
    /\ UNCHANGED <<api_key, document_text, all_articles, chunker_articles, chunks, i, chunk_responses, chunks_failed, caller, cand, plan, returns, ret, model_used, calls, requests, syntheses, answer, raised, chunker_vars>>

\* cli.py lines 137-140: an exception out of ask_claude reaches "except Exception"
MainExcept ==
    /\ pc = "main_except"
    /\ branch' = "unexpected_error"
    /\ pc' = "done"
    /\ UNCHANGED <<api_key, document_text, all_articles, chunker_articles, chunks, i, chunk_responses, chunks_failed, caller, cand, plan, returns, ret, model_used, calls, requests, syntheses, answer, raised, printed, saved, chunker_vars>>

Next ==
    \/ MainLoad
    \/ MainLoadFails
    \/ AskClaudeSplit
    \/ InvokeForChunk
    \/ InvokeRaises
    \/ AttemptSucceeds
    \/ AttemptEmptyContent
    \/ AttemptFails
    \/ ChunkReturn
    \/ AllChunksFailed
    \/ Passthrough
    \/ Combine
    \/ SynthesisReturn
    \/ MainResult
    \/ MainExcept

Spec == Init /\ [][Next]_vars

(***************************************************************************)
(* Claims about the chunker (ChunkSpec).                                   *)
(***************************************************************************)
Returned == split_pc = "returned"

\* C1: for every budget > 0, every chunk split_content_into_chunks returns
\* is at most max_chars_per_chunk characters long, whatever was accumulated
\* in current_chunk when an over-budget article, paragraph, sentence or
\* word was reached.
C1_Boundedness ==
    (Returned /\ budget > 0) =>
        \A k \in 1..Len(split_result) : Len(split_result[k]) <= budget

Separators == {".", " ", "\n"}

\* the characters of s that are not separator characters, in order
Letters(s) == SelectSeq(s, LAMBDA c : c \notin Separators)

\* what may be left of the words ws: every word whole, or cut down to max
\* characters when it is longer than max
RECURSIVE LossyLetters(_, _)
LossyLetters(ws, max) ==
    IF ws = <<>> THEN {<<>>}
    ELSE LET w == Head(ws)
             heads == IF Len(w) > max THEN {Letters(w), Letters(Take(w, max))} ELSE {Letters(w)}
         IN  {h \o t : h \in heads, t \in LossyLetters(Tail(ws), max)}

CascadeRan == Returned /\ budget > 0 /\ articles = <<>> /\ Len(content) > budget

\* C2: for content longer than the budget, budget > 0 and no articles, the
\* chunks concatenated in order, separator characters (blank line, period,
\* whitespace) ignored, are the content with the same characters ignored:
\* nothing dropped, duplicated or reordered, except that a word longer than
\* the budget may have lost its characters past the budget.
C2_Lossless ==
    CascadeRan => Letters(Concat(split_result)) \in LossyLetters(SplitWs(content), budget)

\* the cascade produced several chunks and cut an over-long word
C2_Witness ==
    /\ CascadeRan
    /\ Len(split_result) >= 2
    /\ Letters(Concat(split_result)) # Letters(content)

\* C11: content no longer than the budget, with or without articles, comes
\* back as one chunk equal to the content character for character; empty
\* content gives one empty chunk.
C11_ShortInputWhole ==
    (Returned /\ Len(content) <= budget) => split_result = <<content>>

\* content of budget length with whitespace at both ends comes back untrimmed
C11_Witness ==
    /\ Returned
    /\ content = <<" ", "a", " ">>
    /\ budget = Len(content)
    /\ split_result = <<content>>

\* C12: for budget > 0 the returned list is non-empty and every chunk is
\* non-empty and has no whitespace at either end, except that empty content
\* gives one empty chunk.
C12_NonEmptyTrimmed ==
    (Returned /\ budget > 0) =>
        IF content = <<>> THEN split_result = <<<<>>>>
        ELSE /\ split_result # <<>>
             /\ \A k \in 1..Len(split_result) :
                   /\ split_result[k] # <<>>
                   /\ Strip(split_result[k]) = split_result[k]

\* C13: with max_chars_per_chunk <= 0 and non-empty content the call ends
\* in a configuration error and returns no list of chunks.
C13_NonPositiveBudgetRejected ==
    (budget <= 0 /\ content # <<>>) => ~Returned


\* the article path ran
ArticlesRan == Returned /\ articles # <<>> /\ Len(content) > budget

\* every article's rendered form is within the budget
ArticlesFit == \A k \in 1..Len(articles) : Len(Render(articles[k])) <= budget

\* the chunks cs are, in order, the blank-line joins of consecutive runs of
\* the rendered articles arts, the runs covering arts; with trimmed, a chunk
\* may also be such a join with the whitespace at its ends removed
RECURSIVE PacksInOrder(_, _, _)
PacksInOrder(cs, arts, trimmed) ==
    IF cs = <<>> THEN arts = <<>>
    ELSE \E n \in 1..Len(arts) :
            /\ \/ Head(cs) = RenderedJoined(SubSeq(arts, 1, n))
               \/ trimmed /\ Head(cs) = Strip(RenderedJoined(SubSeq(arts, 1, n)))
            /\ PacksInOrder(Tail(cs), SubSeq(arts, n + 1, Len(arts)), trimmed)

\* C14 as stated: with articles given, content longer than the budget and
\* every rendered article within the budget, every rendered article lies
\* whole in one chunk, in the original order, and the chunks joined with
\* the blank-line separator are the rendered articles joined in order.
C14_ArticleOrderExact ==
    (ArticlesRan /\ ArticlesFit) =>
        /\ PacksInOrder(split_result, articles, FALSE)
        /\ JoinWith(split_result, ParagraphSep) = RenderedJoined(articles)

\* C14 as amended: the same, except that the whitespace at the ends of a
\* chunk is trimmed (a rendered article ends in a space when its content is
\* empty).
C14_ArticleOrderTrimmed ==
    (ArticlesRan /\ ArticlesFit) => PacksInOrder(split_result, articles, TRUE)

\* three articles in two chunks, one of them trimmed
C14_Witness ==
    /\ ArticlesRan
    /\ ArticlesFit
    /\ Len(articles) = 3
    /\ Len(split_result) = 2
    /\ JoinWith(split_result, ParagraphSep) # RenderedJoined(articles)

\* C18: an article whose rendered form alone exceeds the budget is split by
\* the cascade whether or not a chunk is being accumulated when it is
\* reached; it is never emitted whole as one chunk.
C18_OverBudgetArticleRechunked ==
    (ArticlesRan /\ budget > 0) =>
        \A k \in 1..Len(articles) :
            Len(Render(articles[k])) > budget =>
                \A c \in 1..Len(split_result) :
                    /\ split_result[c] # Render(articles[k])
                    /\ split_result[c] # Strip(Render(articles[k]))


\* the iterations a call of the paragraph cascade on a text of length n can
\* run at most: each paragraph, sentence and word takes one, and each
\* separator between two of them takes at least one character
CascadeSteps(n) == 3 * (n + 1)

RECURSIVE ArticleSteps(_, _)
\* the iterations a call with the articles arts can run at most
ArticleSteps(arts, k) ==
    IF k > Len(arts) THEN 0 ELSE 1 + CascadeSteps(Len(Render(arts[k]))) + ArticleSteps(arts, k + 1)

\* C21: for every content, article list and budget, non-positive budgets
\* included, split_content_into_chunks has returned after a number of loop
\* iterations bounded by the size of its input; its recursive calls nest at
\* most one deep, and only when an article list is given; the cascade reaches
\* no granularity past paragraph, sentence, word and truncation.
C21_ChunkerTerminates ==
    /\ split_pc = "returned" =>
           /\ split_trace.depth \in 0..1
           /\ split_trace.depth = 1 => articles # <<>>
           /\ split_trace.level \in 0..4
           /\ split_trace.steps \in Nat
           /\ articles = <<>> => split_trace.steps <= CascadeSteps(Len(content))
           /\ articles # <<>> => split_trace.steps <= ArticleSteps(articles, 1)

C21_Witness ==
    /\ split_pc = "returned"
    /\ articles # <<>>
    /\ split_trace.depth = 1
    /\ split_trace.level = 3
    /\ Len(split_result) > Len(articles)

(***************************************************************************)
(* Claims about the invoker, the orchestrator and main (Spec).             *)
(***************************************************************************)
\* the calls the loop of ask_claude made, in order
ChunkCalls == SelectSeq(calls, LAMBDA c : c.caller = "chunk")

SynthesisCalls == SelectSeq(calls, LAMBDA c : c.caller = "synthesis")

\* what the invoker returned for the chunks queried so far, in chunk order
ChunkReturns == SubSeq(returns, 1, Min(Len(returns), Len(ChunkCalls)))

\* the answers the chunks produced, failed chunks left out
SuccessfulTexts == SelectSeq(ChunkReturns, Truthy)

\* every candidate of the current call fails
EveryCandidateFails == \A c \in 1..Len(models_to_try) : plan[c].kind \in Failures

\* ask_claude has returned a value to main
Finished == pc \in {"main_result", "done"} /\ answer # NotReturned

\* ask_claude has ended, by returning or by raising
AskClaudeEnded == pc \in {"main_result", "main_except", "done"} /\ document_text # <<>>

C3Errors == {"overloaded_529", "http_status_error", "network_or_timeout", "decode_error"}

\* C3: when the attempt on the first candidate fails with an overload, another
\* HTTP status error, a network error or timeout, or a decode error, and the
\* second candidate answers with non-empty content, ask_claude_single_chunk
\* returns the second candidate's text, trimmed, and not the failure result.
C3_FallbackDeterminism ==
    (pc = "returned" /\ plan[1].kind \in C3Errors /\ plan[2].kind = "ok") =>
        /\ ret = Strip(plan[2].text)
        /\ ret # None
        /\ model_used = models_to_try[2]

C3_Witness ==
    /\ pc = "returned"
    /\ plan[1].kind = "http_status_error"
    /\ plan[2] = [kind |-> "ok", text |-> <<" ", "x">>]
    /\ ret = <<"x">>

\* C4: with the credential present no exception leaves
\* ask_claude_single_chunk, and when every candidate fails (overload, HTTP
\* error, network error or timeout, decode error, malformed or empty body)
\* it returns None, with no model used.
C4_TotalFailure ==
    /\ api_key => raised = NoName
    /\ (pc = "returned" /\ EveryCandidateFails) => (ret = None /\ model_used = NoName)

C4_Witness ==
    /\ pc = "returned"
    /\ api_key
    /\ plan[1].kind = "decode_error"
    /\ plan[2].kind = "malformed_body"
    /\ ret = None

\* C5: the loop of ask_claude calls the invoker once per chunk, in order,
\* with chunk_number 1, 2, ..., N and total_chunks N; a failed chunk does not
\* stop the loop, and when the loop ends successes plus failures are N.
C5_DenseSequentialChunks ==
    /\ \A k \in 1..Len(ChunkCalls) :
          /\ ChunkCalls[k].chunk_number = k
          /\ ChunkCalls[k].total_chunks = Len(chunks)
          /\ ChunkCalls[k].text = chunks[k]
    /\ pc = "decide" =>
          /\ Len(ChunkCalls) = Len(chunks)
          /\ Len(ChunkReturns) = Len(chunks)
          /\ Len(chunk_responses) + chunks_failed = Len(chunks)

\* three chunks, the second failed, the first and third answered
C5_Witness ==
    /\ pc = "decide"
    /\ Len(chunks) = 3
    /\ Truthy(returns[1])
    /\ returns[2] = None
    /\ Truthy(returns[3])
    /\ chunks_failed = 1

\* C6: when exactly one chunk produced an answer, ask_claude returns that
\* chunk's text as it is and makes no synthesis call;
\* combine_chunk_responses is never called with fewer than two answers.
C6_SinglePassthrough ==
    /\ (Finished /\ Len(SuccessfulTexts) = 1) =>
          /\ answer = SuccessfulTexts[1]
          /\ syntheses = <<>>
          /\ SynthesisCalls = <<>>
    /\ \A k \in 1..Len(syntheses) : Len(syntheses[k]) >= 2

\* three chunks, two failed, the answer is the one text
C6_Witness ==
    /\ pc = "done"
    /\ Len(chunks) = 3
    /\ chunks_failed = 2
    /\ returns[2] = <<"x">>
    /\ answer = <<"x">>

\* C7: when k >= 2 chunks produced answers, one synthesis call is made,
\* after the last chunk was queried, over those k texts in chunk order, and
\* if it succeeds ask_claude returns the synthesizer's output.
C7_MultiChunkSynthesis ==
    /\ Len(syntheses) <= 1
    /\ syntheses # <<>> =>
          /\ Len(ChunkReturns) = Len(chunks)
          /\ syntheses[1] = SuccessfulTexts
          /\ Len(SynthesisCalls) = 1
          /\ calls[Len(calls)].caller = "synthesis"
          /\ calls[Len(calls)].text = CombinedText(SuccessfulTexts)
    /\ (Finished /\ Len(SuccessfulTexts) >= 2) =>
          /\ Len(syntheses) = 1
          /\ model_used # NoName =>
                /\ answer = ret
                /\ \E c \in 1..Len(models_to_try) :
                      /\ model_used = models_to_try[c]
                      /\ plan[c].kind = "ok"
                      /\ answer = Strip(plan[c].text)

\* three chunks, the second failed, the synthesis of the other two succeeded
C7_Witness ==
    /\ pc = "done"
    /\ returns = <<<<"x">>, None, <<"x", "y">>, <<"x", "y">>>>
    /\ syntheses = <<<<<<"x">>, <<"x", "y">>>>>>
    /\ answer = <<"x", "y">>

\* C8: when two or more chunks succeeded and every candidate of the
\* synthesis call fails, ask_claude returns None, not a partial answer.
C8_SynthesisFailure ==
    (Finished /\ Len(SuccessfulTexts) >= 2 /\ EveryCandidateFails) => answer = None

C8_Witness ==
    /\ pc = "done"
    /\ Len(SuccessfulTexts) = 2
    /\ plan[1].kind = "overloaded_529"
    /\ plan[2].kind = "overloaded_529"
    /\ answer = None

\* C9: when no chunk produced an answer, ask_claude ends with None, without
\* a synthesis call and (the credential being present) without raising.
C9_TotalPipelineFailure ==
    (AskClaudeEnded /\ api_key /\ SuccessfulTexts = <<>>) =>
        /\ answer = None
        /\ raised = NoName
        /\ syntheses = <<>>
        /\ SynthesisCalls = <<>>

C9_Witness ==
    /\ pc = "done"
    /\ api_key
    /\ Len(chunks) = 3
    /\ chunks_failed = 3
    /\ answer = None

\* C10: for every run in which ask_claude produced an answer, main prints
\* that answer and calls save_output exactly once with it.
C10_AnswerReachesCaller ==
    (pc = "done" /\ Truthy(answer)) =>
        /\ printed = <<answer>>
        /\ Len(saved) = 1

\* the requests of the invoker call number n, in the order they were issued
RequestsOf(n) == SelectSeq(requests, LAMBDA r : r.call = n)

\* the models the requests of call number n went to
ModelsOf(n) == [k \in 1..Len(RequestsOf(n)) |-> RequestsOf(n)[k].model]

\* how many requests the current invoker call has issued
CurrentRequestCount == Cardinality({k \in 1..Len(requests) : requests[k].call = Len(calls)})

\* C15: when the credential is missing, ask_claude_single_chunk raises before
\* any request is issued and before any candidate is tried, and the error
\* leaves ask_claude: the run ends in main's handler after the first call,
\* with no value returned and no chunk recorded as answered or failed.
C15_MissingCredentialFatal ==
    ~api_key =>
        /\ requests = <<>>
        /\ returns = <<>>
        /\ Len(calls) <= 1
        /\ chunks_failed = 0
        /\ chunk_responses = <<>>
        /\ answer = NotReturned
        /\ pc \in {"main", "ask_claude", "loop", "main_except", "done"}
        /\ (AskClaudeEnded => raised = "RuntimeError" /\ Len(calls) = 1)

C15_Witness ==
    /\ pc = "done"
    /\ ~api_key
    /\ Len(chunks) > 1
    /\ raised = "RuntimeError"
    /\ branch = "unexpected_error"
    /\ requests = <<>>

\* C16: ask_claude_single_chunk returns the failure result only when every
\* candidate of the list has been attempted; an HTTP-success response with
\* missing or empty content is followed by an attempt on the next candidate.
C16_FailureOnlyAfterExhaustion ==
    (pc = "returned" /\ model_used = NoName) => ModelsOf(Len(calls)) = models_to_try

\* C17: within one call of ask_claude_single_chunk the requests go to the
\* candidates in list order, each candidate gets at most one request, and no
\* request follows an attempt that succeeded.
C17_StrictlyForwardFallback ==
    /\ \A k \in 1..Len(requests) :
           IF k = 1 \/ requests[k - 1].call # requests[k].call
           THEN /\ requests[k].model = models_to_try[1]
                /\ k > 1 => requests[k - 1].call < requests[k].call
           ELSE \E c \in 1..(Len(models_to_try) - 1) :
                    /\ requests[k - 1].model = models_to_try[c]
                    /\ requests[k].model = models_to_try[c + 1]
    /\ pc \in {"request", "returned"} =>
           \A c \in 1..(CurrentRequestCount - 1) : plan[c].kind # "ok"
    /\ (pc = "returned" /\ model_used # NoName) =>
           /\ requests # <<>>
           /\ requests[Len(requests)] = [call |-> Len(calls), model |-> model_used]

C17_Witness ==
    /\ pc = "returned"
    /\ plan[1].kind = "network_or_timeout"
    /\ plan[2].kind = "ok"
    /\ ModelsOf(Len(calls)) = <<MODEL_NAME_CLAUDE_4, MODEL_NAME_CLAUDE_35>>
    /\ model_used = MODEL_NAME_CLAUDE_35

\* C19: the articles that process_data_directory produced are the articles
\* ask_claude hands to split_content_into_chunks.
C19_ArticlesThreaded ==
    (pc \notin {"main", "ask_claude"} /\ document_text # <<>>) => chunker_articles = all_articles

\* the requests that belong to per-chunk calls, and to the synthesis call
ChunkRequests == SelectSeq(requests, LAMBDA r : calls[r.call].caller = "chunk")

SynthesisRequests == SelectSeq(requests, LAMBDA r : calls[r.call].caller = "synthesis")

\* the stage of the run: start, chunking, per-chunk loop, synthesis or
\* passthrough, ended
Phase ==
    CASE pc = "main" -> 0
      [] pc = "ask_claude" -> 1
      [] pc = "loop" -> 2
      [] pc \in {"request", "returned"} /\ caller = "chunk" -> 2
      [] pc = "decide" -> 3
      [] pc \in {"request", "returned"} /\ caller = "synthesis" -> 3
      [] OTHER -> 4

\* the number of steps the run can still take, at most
Rank ==
    CASE pc = "done" -> 0
      [] pc \in {"main_result", "main_except"} -> 1
      [] pc = "returned" /\ caller = "synthesis" -> 2
      [] pc = "request" /\ caller = "synthesis" -> 5 - cand
      [] pc = "decide" -> 5
      [] pc = "returned" /\ caller = "chunk" -> 4 * (Len(chunks) - i + 1) + 3
      [] pc = "request" /\ caller = "chunk" -> 4 * (Len(chunks) - i + 1) + 6 - cand
      [] pc = "loop" -> 4 * (Len(chunks) - i + 1) + 6
      [] pc = "ask_claude" -> 4 * Len(document_text) + 8
      [] OTHER -> 4 * Len(ParagraphsDoc(MaxParagraphs)) + 13

C20_Bounds ==
    /\ Rank \in Nat
    /\ pc \in {"main", "ask_claude", "loop", "request", "returned", "decide", "main_result", "main_except", "done"}
    /\ pc = "main" => ENABLED MainLoad
    /\ pc = "ask_claude" => ENABLED AskClaudeSplit
    /\ pc = "loop" => ENABLED (InvokeForChunk \/ InvokeRaises)
    /\ pc = "request" => ENABLED (AttemptSucceeds \/ AttemptEmptyContent \/ AttemptFails)
    /\ pc = "returned" => ENABLED (ChunkReturn \/ SynthesisReturn)
    /\ pc = "decide" => ENABLED (AllChunksFailed \/ Passthrough \/ Combine)
    /\ pc = "main_result" => ENABLED MainResult
    /\ pc = "main_except" => ENABLED MainExcept
    /\ Len(ChunkRequests) <= Len(models_to_try) * Len(chunks)
    /\ Len(ChunkCalls) <= Len(chunks)
    /\ Len(SynthesisRequests) <= Len(models_to_try)
    /\ Len(SynthesisCalls) <= 1
    /\ Len(syntheses) <= 1
    /\ calls = ChunkCalls \o SynthesisCalls
    /\ SynthesisCalls # <<>> => Len(ChunkCalls) = Len(chunks)
    /\ pc = "main_result" => answer # NotReturned /\ raised = NoName
    /\ (pc = "main_except" /\ document_text # <<>>) => answer = NotReturned /\ raised = "RuntimeError"

\* C20: every run of ask_claude ends, with an answer, None or a raised
\* RuntimeError, after going through chunking, the per-chunk loop and at most
\* one synthesis or passthrough step, in that order; for N chunks it issues at
\* most 2*N per-chunk requests and at most 2 synthesis requests. A transport
\* call returns or raises (line 71, timeout=60.0), so at every location but
\* the end the step of that location can be taken; every step lowers Rank, a
\* natural number, so a run takes at most Rank steps from where it is.
C20_BoundedTermination ==
    /\ []C20_Bounds
    /\ [][Rank' < Rank /\ Phase' >= Phase]_vars

C20_Witness ==
    /\ pc = "done"
    /\ Len(chunks) = MaxParagraphs
    /\ Len(ChunkRequests) = Len(models_to_try) * Len(chunks)
    /\ Len(SynthesisRequests) = Len(models_to_try)
    /\ Len(syntheses) = 1

====
